---- MODULE Spec2Model ----
(***************************************************************************)
(* Model of app.py: a Streamlit page for speech-emotion detection.         *)
(*                                                                         *)
(* The page script is re-executed top to bottom on every user interaction. *)
(* One action of the model is one whole script run, triggered by one       *)
(* interaction (open/refresh, file upload, recording, detect click).       *)
(*                                                                         *)
(* Sample rates are scaled: librosa's default rate (22050 Hz) is RateUnit  *)
(* samples per second and TARGET_SR (44100 Hz = 2 * 22050) is 2 * RateUnit.*)
(* Every length of the program is a duration times a rate, so the window   *)
(* of 3 s and the limit of 6 s keep their values in seconds.               *)
(*                                                                         *)
(* A sample is an integer PCM code (0 is digital silence).                 *)
(***************************************************************************)
EXTENDS Integers, Sequences, FiniteSets, TLC

VARIABLES disk, cache, loads, first_load, uploaded_file, recorder, session_state, run

vars == <<disk, cache, loads, first_load, uploaded_file, recorder, session_state, run>>

-----------------------------------------------------------------------------
(* Bounds of the model *)

\* samples per second standing for librosa's default rate of 22050 Hz
RateUnit == 3
\* output units of the serialized network
NumClasses == 2

-----------------------------------------------------------------------------
(* Program constants *)

DEFAULT_SR == RateUnit
TARGET_SR == 2 * RateUnit
TARGET_DURATION == 3
TARGET_LENGTH == TARGET_SR * TARGET_DURATION
MAX_RECORD_DURATION == 6
\* librosa.power_to_db clips at 80 dB below the peak (its default top_db)
TOP_DB == 80
\* n_fft = 2048 is four hops of 512 samples; a hop is scaled with the rate
hop_length == RateUnit
n_fft == 4 * hop_length

-----------------------------------------------------------------------------
(* Arithmetic helpers *)

Min(a, b) == IF a <= b THEN a ELSE b
Max(a, b) == IF a >= b THEN a ELSE b
CeilDiv(a, b) == (a + b - 1) \div b

\* the sum of s[lo..hi], by halves
RECURSIVE SumRange(_, _, _)
SumRange(s, lo, hi) ==
    IF lo > hi THEN 0
    ELSE IF lo = hi THEN s[lo]
    ELSE SumRange(s, lo, (lo + hi) \div 2) + SumRange(s, (lo + hi) \div 2 + 1, hi)

SumSeq(s) == SumRange(s, 1, Len(s))

\* the largest element of a sequence of naturals, 0 for the empty one
MaxSeq(s) ==
    CHOOSE m \in {0} \cup {s[i] : i \in 1..Len(s)} : \A i \in 1..Len(s) : s[i] <= m

Zeros(n) == [i \in 1..n |-> 0]
Ramp(n) == [i \in 1..n |-> i]

-----------------------------------------------------------------------------
(* Values *)

\* Python's None for a byte string / an uploaded file
NoBytes == [kind |-> "none", sr |-> 0, samples |-> <<>>]
\* b"": a byte string of length 0
EmptyBytes == [kind |-> "empty", sr |-> 0, samples |-> <<>>]
\* bytes no audio decoder accepts
GarbageBytes == [kind |-> "garbage", sr |-> 0, samples |-> <<>>]
\* an audio file: its native rate and its samples
AudioBytes(sr, samples) == [kind |-> "audio", sr |-> sr, samples |-> samples]

\* Python's None for a waveform / feature
NoAudio == [ok |-> FALSE, samples |-> <<>>]
SomeAudio(s) == [ok |-> TRUE, samples |-> s]

\* durations are exact quotients num / den of a sample count and a rate
Dur(n, d) == [num |-> n, den |-> d]
ZeroDur == Dur(0, 1)

-----------------------------------------------------------------------------
(* Input clips *)

\* a clip: digital silence, a voiced ramp 1, 2, ..., b of distinct codes, silence
Wave(a, b, c) == Zeros(a) \o Ramp(b) \o Zeros(c)

\* voiced clips at rate sr, one of each length in lens
VoicedClips(sr, lens) == {AudioBytes(sr, Ramp(b)) : b \in lens}

\* the files a user uploads: unreadable bytes, a clip of a second with silence
\* before and after it, at the default rate a clip of exactly 6 s and one of a
\* sample more, at the target rate a clip of a sample more than 6 s
UploadFiles ==
    {GarbageBytes, AudioBytes(TARGET_SR, Wave(1, TARGET_SR, 1))}
        \cup VoicedClips(DEFAULT_SR, {MAX_RECORD_DURATION * DEFAULT_SR,
                                      MAX_RECORD_DURATION * DEFAULT_SR + 1})
        \cup VoicedClips(TARGET_SR, {MAX_RECORD_DURATION * TARGET_SR + 1})

\* what the recorder component delivers: nothing recorded (b""), unreadable
\* bytes, a clip of no sample, a clip of digital silence, a clip one sample
\* over the 3 s window, one of exactly 6 s and one of a sample more
Recordings ==
    {EmptyBytes, GarbageBytes, AudioBytes(TARGET_SR, <<>>),
     AudioBytes(TARGET_SR, Zeros(2))}
        \cup VoicedClips(TARGET_SR, {TARGET_LENGTH + 1,
                                     MAX_RECORD_DURATION * TARGET_SR,
                                     MAX_RECORD_DURATION * TARGET_SR + 1})

-----------------------------------------------------------------------------
(* Library routines *)

\* librosa's resampler gives ceil(n * to / from) samples; its band-limited
\* interpolation is stood for by the nearest earlier input sample
Resample(samples, from, to) ==
    LET n == Len(samples)
        m == CeilDiv(n * to, from)
    IN  [i \in 1..m |-> samples[Max(1, Min(n, CeilDiv(i * from, to)))]]

\* librosa.load(io.BytesIO(audio_bytes), sr=sr): raises on bytes that hold no
\* audio, otherwise the waveform resampled to sr
librosa_load(audio_bytes, sr) ==
    IF audio_bytes.kind # "audio"
    THEN [raised |-> TRUE, audio |-> <<>>, sr |-> sr]
    ELSE [raised |-> FALSE,
          audio |-> IF audio_bytes.sr = sr THEN audio_bytes.samples
                    ELSE Resample(audio_bytes.samples, audio_bytes.sr, sr),
          sr |-> sr]

\* librosa.effects.trim(audio, top_db=20): cuts the leading and trailing part
\* that is more than 20 dB (a factor 10 in amplitude) below the peak; a clip of
\* digital silence has no part below its own peak and is returned whole
trim(audio) ==
    LET peak == MaxSeq(audio)
        loud == {i \in 1..Len(audio) : peak = 0 \/ 10 * audio[i] > peak}
    IN  IF loud = {} THEN <<>>
        ELSE LET first == CHOOSE i \in loud : \A j \in loud : i <= j
                 last == CHOOSE i \in loud : \A j \in loud : j <= i
             IN  SubSeq(audio, first, last)

\* soundfile.write(buffer, audio, sr, format='WAV'): a WAV file of these samples
sf_write(audio, sr) == AudioBytes(sr, audio)

RECURSIVE ILog2(_)
ILog2(n) == IF n <= 1 THEN 0 ELSE 1 + ILog2(n \div 2)

\* librosa.feature.melspectrogram(n_fft, hop_length): one centered, zero-padded
\* frame per hop; the power of a frame is the sum of its squared samples (the
\* 128 mel bands are stood for by one band)
melspectrogram(audio) ==
    LET n == Len(audio)
        Power(t) ==
            LET lo == Max(1, t * hop_length - (n_fft \div 2) + 1)
                hi == Min(n, t * hop_length + (n_fft \div 2))
            IN  SumSeq([i \in 1..Max(0, hi - lo + 1) |->
                           audio[lo + i - 1] * audio[lo + i - 1]])
    IN  [f \in 1..(1 + n \div hop_length) |-> Power(f - 1)]

\* librosa.power_to_db(mel_spec, ref=np.max): decibels relative to the largest
\* power (3 dB per doubling), never below TOP_DB under the peak; an all-zero
\* spectrogram gives 0 dB everywhere
power_to_db(mel_spec) ==
    LET ref == MaxSeq(mel_spec)
    IN  [f \in 1..Len(mel_spec) |->
            IF ref = 0 THEN 0
            ELSE IF mel_spec[f] = 0 THEN 0 - TOP_DB
            ELSE Max(0 - TOP_DB, 3 * (ILog2(mel_spec[f]) - ILog2(ref)))]

\* argmax with a slip: the first index of the smallest score
argmin(scores) ==
    CHOOSE i \in 1..Len(scores) :
        /\ \A j \in 1..Len(scores) : scores[j] >= scores[i]
        /\ \A j \in 1..(i - 1) : scores[j] > scores[i]

\* np.argmax: the first index of the largest score
argmax(scores) ==
    CHOOSE i \in 1..Len(scores) :
        /\ \A j \in 1..Len(scores) : scores[j] <= scores[i]
        /\ \A j \in 1..(i - 1) : scores[j] < scores[i]

-----------------------------------------------------------------------------
(* Assets *)

EmotionNames ==
    <<"angry", "calm", "disgust", "fearful", "happy", "neutral", "sad", "surprised">>

\* Python's None for the model / the label encoder
NoModel == [ok |-> FALSE, outputs |-> 0]
NoEncoder == [ok |-> FALSE, classes_ |-> <<>>]
NoAssets == [model |-> NoModel, label_encoder |-> NoEncoder]

\* a network with k output units, an encoder of the first k emotion names
Model(k) == [ok |-> TRUE, outputs |-> k]
Encoder(k) == [ok |-> TRUE, classes_ |-> SubSeq(EmotionNames, 1, k)]

\* what the two files on disk can hold: nothing readable (a file is missing
\* or corrupt), or a network and the encoder of its classes
DiskStates ==
    { [readable |-> FALSE, assets |-> NoAssets],
      [readable |-> TRUE,
       assets |-> [model |-> Model(NumClasses), label_encoder |-> Encoder(NumClasses)]] }

\* the body of load_assets: both objects, or the error banner and (None, None)
load_assets_body(d) ==
    IF d.readable
    THEN [value |-> d.assets, banners |-> {}]
    ELSE [value |-> NoAssets, banners |-> {"asset_error"}]

EmptyCache == [filled |-> FALSE, entry |-> [value |-> NoAssets, banners |-> {}]]

\* a call that missed the cache: the result r of the body is stored
CacheMiss(r) ==
    [value |-> r.value, banners |-> r.banners,
     cache |-> [filled |-> TRUE, entry |-> r], executed |-> TRUE]

\* load_assets with a slip: no st.cache_resource, the body runs on every call
load_assets_uncached(c, d) == CacheMiss(load_assets_body(d))

\* load_assets under st.cache_resource: the body runs when the cache holds no
\* entry; its result (and the elements it displayed) are stored and replayed
load_assets(c, d) ==
    IF c.filled
    THEN [value |-> c.entry.value, banners |-> c.entry.banners,
          cache |-> c, executed |-> FALSE]
    ELSE CacheMiss(load_assets_body(d))

-----------------------------------------------------------------------------
(* Pipeline functions *)

NoPre == [padded |-> NoAudio, decoded |-> FALSE, audio_trimmed |-> <<>>, banners |-> {}]

\* PadOrCut with a slip: the padding goes in front, the cut keeps the last window
PadOrCutAtFront(audio_trimmed) ==
    IF Len(audio_trimmed) < TARGET_LENGTH
    THEN Zeros(TARGET_LENGTH - Len(audio_trimmed)) \o audio_trimmed
    ELSE SubSeq(audio_trimmed, Len(audio_trimmed) - TARGET_LENGTH + 1,
                Len(audio_trimmed))

\* lines 30-34: pad at the end up to the window, or keep the first window
PadOrCut(audio_trimmed) ==
    IF Len(audio_trimmed) < TARGET_LENGTH
    THEN audio_trimmed \o Zeros(TARGET_LENGTH - Len(audio_trimmed))
    ELSE SubSeq(audio_trimmed, 1, TARGET_LENGTH)

\* lines 28-34 on the trimmed waveform
Preprocessed(audio_trimmed) ==
    [padded |-> SomeAudio(PadOrCut(audio_trimmed)), decoded |-> TRUE,
     audio_trimmed |-> audio_trimmed, banners |-> {}]

\* lines 26-37 on the outcome l of librosa.load
PreprocessLoaded(l) ==
    IF l.raised
    THEN [NoPre EXCEPT !.banners = {"preprocess_error"}]
    ELSE Preprocessed(trim(l.audio))

preprocess_audio_from_bytes(audio_bytes) ==
    PreprocessLoaded(librosa_load(audio_bytes, TARGET_SR))

\* A feature: element i is (num[i] / den) when not divided, and
\* (num[i] / den) / sqrt(std_sq / den^3) when divided by the standard deviation
NoFeature ==
    [ok |-> FALSE, log_mel |-> <<>>, num |-> <<>>, den |-> 1,
     divided |-> FALSE, std_sq |-> 0]

\* np.mean and np.std of x, kept exact: mean = sum / n, and with
\* c[i] = n * x[i] - sum (n times the centered value), std^2 = sum(c^2) / n^3
Centered(x) == [i \in 1..Len(x) |-> Len(x) * x[i] - SumSeq(x)]
Squares(c) == [i \in 1..Len(c) |-> c[i] * c[i]]
StdSq(x) == SumSeq(Squares(Centered(x)))

\* DividesByStd with a slip: the test of std is missing
DividesAlways(log_mel) == TRUE

\* "if std != 0": whether the code divides by std for this array
DividesByStd(log_mel) == StdSq(log_mel) # 0

\* lines 43-44
Standardize(log_mel) ==
    [ok |-> TRUE, log_mel |-> log_mel, num |-> Centered(log_mel),
     den |-> Len(log_mel), divided |-> DividesByStd(log_mel),
     std_sq |-> StdSq(log_mel)]

extract_log_mel(audio) ==
    IF ~audio.ok THEN NoFeature
    ELSE Standardize(power_to_db(melspectrogram(audio.samples)))

NoValidation ==
    [called |-> FALSE, raised |-> FALSE, decoded_len |-> 0,
     is_valid |-> FALSE, duration |-> ZeroDur]

\* WithinLimit with a slip: a strict comparison
BelowLimit(duration) == duration.num < MAX_RECORD_DURATION * duration.den

\* "duration <= MAX_RECORD_DURATION"
WithinLimit(duration) == duration.num <= MAX_RECORD_DURATION * duration.den

\* lines 49-53 on the outcome l of librosa.load
ValidateLoaded(l) ==
    IF l.raised
    THEN [NoValidation EXCEPT !.called = TRUE, !.raised = TRUE]
    ELSE [called |-> TRUE, raised |-> FALSE, decoded_len |-> Len(l.audio),
          is_valid |-> WithinLimit(Dur(Len(l.audio), l.sr)),
          duration |-> Dur(Len(l.audio), l.sr)]

\* librosa.load is called without sr: it resamples to its default rate
validate_audio_duration(audio_bytes) ==
    ValidateLoaded(librosa_load(audio_bytes, DEFAULT_SR))

NoProcessing ==
    [called |-> FALSE, raised |-> FALSE, decoded_len |-> 0,
     processed_bytes |-> NoBytes, duration |-> ZeroDur, banners |-> {}]

\* Truncate with a slip: the recording is written whole
TruncateNothing(audio, max_samples) == audio

\* lines 61-62: "if len(audio) > max_samples: audio = audio[:max_samples]"
Truncate(audio, max_samples) ==
    IF Len(audio) > max_samples THEN SubSeq(audio, 1, max_samples) ELSE audio

\* lines 60-77 on the outcome l of librosa.load
ProcessLoaded(l) ==
    IF l.raised
    THEN [NoProcessing EXCEPT !.called = TRUE, !.raised = TRUE,
                              !.banners = {"process_error"}]
    ELSE [called |-> TRUE, raised |-> FALSE, decoded_len |-> Len(l.audio),
          processed_bytes |->
              sf_write(Truncate(l.audio, MAX_RECORD_DURATION * l.sr), l.sr),
          duration |->
              Dur(Len(Truncate(l.audio, MAX_RECORD_DURATION * l.sr)), l.sr),
          banners |-> IF Len(l.audio) > MAX_RECORD_DURATION * l.sr
                      THEN {"truncate_info"} ELSE {}]

process_recorded_audio(audio_bytes) ==
    ProcessLoaded(librosa_load(audio_bytes, TARGET_SR))

\* f"{duration:.2f}": the duration in hundredths of a second, rounded to the
\* nearest, an exact half to the even neighbour
RoundHalfEven(q, r, d) ==
    IF r < d THEN q
    ELSE IF r > d THEN q + 1
    ELSE IF q % 2 = 0 THEN q ELSE q + 1

Format2f(duration) ==
    RoundHalfEven((200 * duration.num) \div (2 * duration.den),
                  (200 * duration.num) % (2 * duration.den),
                  duration.den)

\* what model.predict can do: raise, or return one score per output unit
PredictOutcomes(model) ==
    {[raised |-> TRUE, scores |-> <<>>]}
        \cup {[raised |-> FALSE, scores |-> v] : v \in [1..model.outputs -> {0, 1}]}

NoAnalysis ==
    [called |-> FALSE, input |-> NoBytes, pre |-> NoPre, log_mel_spec |-> NoFeature,
     model_invoked |-> FALSE, raised |-> FALSE,
     predicted_emotion |-> "None", predictions |-> <<>>, banners |-> {}]

\* lines 81-82
Features(audio_bytes, pre) ==
    [NoAnalysis EXCEPT !.called = TRUE, !.input = audio_bytes, !.pre = pre,
                       !.log_mel_spec = extract_log_mel(pre.padded),
                       !.banners = pre.banners]

\* line 88: inverse_transform raises on an index the encoder never saw
Labelled(a, classes, predicted_index, scores) ==
    IF predicted_index > Len(classes)
    THEN [a EXCEPT !.model_invoked = TRUE, !.raised = TRUE]
    ELSE [a EXCEPT !.model_invoked = TRUE,
                   !.predicted_emotion = classes[predicted_index],
                   !.predictions = scores]

\* lines 84-91; pred is what model.predict does when it is called. No
\* try/except surrounds lines 85-88: an exception there leaves analyze_emotion
Classify(a, assets, pred) ==
    IF ~a.log_mel_spec.ok THEN a
    ELSE IF pred.raised
    THEN [a EXCEPT !.model_invoked = TRUE, !.raised = TRUE]
    ELSE Labelled(a, assets.label_encoder.classes_, argmax(pred.scores), pred.scores)

\* analyze_emotion with the module's globals model and label_encoder
analyze_emotion(audio_bytes, assets, pred) ==
    Classify(Features(audio_bytes, preprocess_audio_from_bytes(audio_bytes)),
             assets, pred)

-----------------------------------------------------------------------------
(* The page script *)

\* truth value of a byte string or None in a Python condition
Truthy(b) == b.kind \notin {"none", "empty"}

\* st.session_state: the keys it holds and their values
EmptySession ==
    [keys |-> {}, recorded_audio |-> NoBytes, audio_processed |-> NoBytes,
     audio_duration |-> ZeroDur]

\* PageGuard with a slip: the page body is not guarded
PageGuardMissing(assets) == TRUE

\* "if model and label_encoder"
PageGuard(assets) == assets.model.ok /\ assets.label_encoder.ok

\* the result display shared by both tabs: the label and its scores, or the
\* generic failure message; an exception of analyze_emotion leaves the script
ResultScreen(a, tab) ==
    IF ~a.called THEN {}
    ELSE a.banners \cup
        (IF a.raised THEN {}
         ELSE IF a.predicted_emotion # "None" THEN {tab \o "_result"}
         ELSE {tab \o "_extract_error"})

\* lines 112-131 for the validation v and the analysis a of the click, if any
UploadShown(v, a) ==
    [screen |->
         {"file_uploader"} \cup
         (IF ~v.is_valid THEN {"too_long_error"}
          ELSE {"file_valid", "upload_audio", "detect_upload_button"}
                   \cup ResultScreen(a, "upload")),
     fault |-> a.raised,
     validation |-> v,
     reported |-> Format2f(v.duration),
     analysis |-> a]

\* lines 110-131
UploadValidated(uploaded, v, click, assets, pred) ==
    UploadShown(v, IF v.is_valid /\ click = "upload"
                   THEN analyze_emotion(uploaded, assets, pred)
                   ELSE NoAnalysis)

\* lines 103-131
UploadTab(uploaded, click, assets, pred) ==
    IF uploaded.kind = "none"
    THEN [screen |-> {"file_uploader"}, fault |-> FALSE,
          validation |-> NoValidation, reported |-> 0, analysis |-> NoAnalysis]
    ELSE UploadValidated(uploaded, validate_audio_duration(uploaded),
                         click, assets, pred)

\* lines 137-142: the three keys are created on the first run of the tab
InitSession(ss) ==
    IF ss.keys = {} THEN [EmptySession EXCEPT !.keys =
                              {"recorded_audio", "audio_processed", "audio_duration"}]
    ELSE ss

\* StoreRecording with a slip: a recording that cannot be processed is stored,
\* but the bytes and the duration of the previous one are kept
StoreRecordingKeepOld(ss, audio_bytes, p) ==
    [session |-> IF p.raised THEN [ss EXCEPT !.recorded_audio = audio_bytes]
                 ELSE [ss EXCEPT !.recorded_audio = audio_bytes,
                                 !.audio_processed = p.processed_bytes,
                                 !.audio_duration = p.duration],
     processing |-> p]

\* lines 155-158
StoreRecording(ss, audio_bytes, p) ==
    [session |-> [ss EXCEPT !.recorded_audio = audio_bytes,
                            !.audio_processed = p.processed_bytes,
                            !.audio_duration = p.duration],
     processing |-> p]

\* lines 154-158: a new non-empty recorder output is stored and processed
UpdateSession(ss, audio_bytes) ==
    IF Truthy(audio_bytes) /\ audio_bytes # ss.recorded_audio
    THEN StoreRecording(ss, audio_bytes, process_recorded_audio(audio_bytes))
    ELSE [session |-> ss, processing |-> NoProcessing]

\* line 160: "if st.session_state.recorded_audio and st.session_state.audio_processed"
Offered(ss) == Truthy(ss.recorded_audio) /\ Truthy(ss.audio_processed)

\* lines 160-181 for the session update u and the analysis a of the click, if any
RecordShown(u, a) ==
    [session |-> u.session,
     screen |->
         {"audio_recorder"} \cup u.processing.banners \cup
         (IF Offered(u.session)
          THEN {"record_ok", "record_duration", "record_audio", "detect_record_button"}
                   \cup ResultScreen(a, "record")
          ELSE IF u.session.recorded_audio.kind = "none" THEN {"no_recording_info"}
          ELSE {}),
     fault |-> a.raised,
     processing |-> u.processing,
     analysis |-> a]

\* lines 160-181
RecordStored(u, click, assets, pred) ==
    RecordShown(u, IF Offered(u.session) /\ click = "record"
                   THEN analyze_emotion(u.session.audio_processed, assets, pred)
                   ELSE NoAnalysis)

\* lines 134-181
RecordTab(audio_bytes, click, assets, pred, ss) ==
    RecordStored(UpdateSession(InitSession(ss), audio_bytes), click, assets, pred)

NoRun ==
    [clicked |-> "none", screen |-> {}, fault |-> FALSE, seen |-> NoAssets,
     executed |-> FALSE, validation |-> NoValidation, reported |-> 0,
     processing |-> NoProcessing, analysis |-> NoAnalysis]

\* the run up to line 97
RunHeader(la, click) ==
    [NoRun EXCEPT !.clicked = click, !.seen = la.value, !.executed = la.executed,
                  !.screen = {"title"} \cup la.banners]

\* the run when both tabs were executed
BothTabs(base, t1, t2) ==
    [session |-> t2.session,
     run |-> [base EXCEPT
                !.screen = @ \cup {"upload_tab", "record_tab"} \cup t1.screen
                             \cup t2.screen
                             \cup (IF t2.fault THEN {"exception"} ELSE {"info_expander"}),
                !.fault = t2.fault,
                !.validation = t1.validation,
                !.reported = t1.reported,
                !.processing = t2.processing,
                !.analysis = IF t1.analysis.called THEN t1.analysis ELSE t2.analysis]]

\* lines 100-196. An exception that nothing catches ends the script where it
\* is raised: what follows that point is neither executed nor displayed.
Tabs(la, base, t1, audio_bytes, click, pred, ss) ==
    IF t1.fault
    THEN [session |-> ss,
          run |-> [base EXCEPT
                     !.screen = @ \cup {"upload_tab", "record_tab"} \cup t1.screen
                                  \cup {"exception"},
                     !.fault = TRUE,
                     !.validation = t1.validation,
                     !.reported = t1.reported,
                     !.analysis = t1.analysis]]
    ELSE BothTabs(base, t1, RecordTab(audio_bytes, click, la.value, pred, ss))

\* lines 99-199 after load_assets returned la
PageBody(la, base, uploaded, audio_bytes, click, pred, ss) ==
    IF ~PageGuard(la.value)
    THEN [session |-> ss, run |-> [base EXCEPT !.screen = @ \cup {"asset_warning"}]]
    ELSE Tabs(la, base, UploadTab(uploaded, click, la.value, pred),
              audio_bytes, click, pred, ss)

\* lines 93-199 after load_assets returned la
PageLoaded(la, uploaded, audio_bytes, click, pred, ss) ==
    [cache |-> la.cache,
     body |-> PageBody(la, RunHeader(la, click), uploaded, audio_bytes, click, pred, ss)]

\* One execution of the script, lines 93-199, with the widget values of this run
PageRun(c, d, uploaded, audio_bytes, click, pred, ss) ==
    PageLoaded(load_assets(c, d), uploaded, audio_bytes, click, pred, ss)

-----------------------------------------------------------------------------
(* The state machine *)

\* the server process has started; no script run has happened yet
Init ==
    /\ disk \in DiskStates
    /\ cache = EmptyCache
    /\ loads = 0
    /\ first_load = NoAssets
    /\ uploaded_file = NoBytes
    /\ recorder = NoBytes
    /\ session_state = EmptySession
    /\ run = NoRun

\* the effect of one script run on the state
Rerun(uploaded, audio_bytes, click, pred, ss) ==
    \E r \in {PageRun(cache, disk, uploaded, audio_bytes, click, pred, ss)} :
        /\ cache' = r.cache
        /\ loads' = IF r.body.run.executed THEN loads + 1 ELSE loads
        /\ first_load' = IF r.body.run.executed /\ loads = 0
                          THEN r.body.run.seen ELSE first_load
        /\ session_state' = r.body.session
        /\ run' = r.body.run
        /\ uploaded_file' = uploaded
        /\ recorder' = audio_bytes
        /\ UNCHANGED disk

NoPred == [raised |-> FALSE, scores |-> <<>>]

\* the browser opens or reloads the page: a new session with fresh widgets
OpenPage == Rerun(NoBytes, NoBytes, "none", NoPred, EmptySession)

\* the user chooses another file in the uploader, or removes the file
UploadFile ==
    /\ "file_uploader" \in run.screen
    /\ \E f \in UploadFiles \cup {NoBytes} :
        /\ f # uploaded_file
        /\ Rerun(f, recorder, "none", NoPred, session_state)

\* the recorder component delivers a recording
Record ==
    /\ "audio_recorder" \in run.screen
    /\ \E r \in Recordings :
        /\ r # recorder
        /\ Rerun(uploaded_file, r, "none", NoPred, session_state)

\* the user clicks "Deteksi Emosi dari File"
ClickDetectUpload ==
    /\ "detect_upload_button" \in run.screen
    /\ \E pred \in PredictOutcomes(run.seen.model) :
        Rerun(uploaded_file, recorder, "upload", pred, session_state)

\* the user clicks "Deteksi Emosi"
ClickDetectRecord ==
    /\ "detect_record_button" \in run.screen
    /\ \E pred \in PredictOutcomes(run.seen.model) :
        Rerun(uploaded_file, recorder, "record", pred, session_state)

\* the asset files are replaced, removed or restored while the server runs
DiskChange ==
    /\ \E d \in DiskStates : d # disk /\ disk' = d
    /\ UNCHANGED <<cache, loads, first_load, uploaded_file, recorder, session_state, run>>

Next ==
    \/ DiskChange
    \/ OpenPage
    \/ UploadFile
    \/ Record
    \/ ClickDetectUpload
    \/ ClickDetectRecord

Spec == Init /\ [][Next]_vars

\* the bytes analyze_emotion is called on directly: everything the page can be
\* handed, and clips shorter than the window at the rate that needs resampling
AnalyzeInputs ==
    UploadFiles \cup Recordings
        \cup VoicedClips(DEFAULT_SR, {1, TARGET_DURATION * DEFAULT_SR})

\* analyze_emotion called on its own, on any bytes, with the loaded assets as
\* its globals: the function's contract beyond the inputs the page lets through
\* (the page never passes bytes that validate_audio_duration could not decode)
CallAnalyze ==
    /\ cache.filled
    /\ PageGuard(cache.entry.value)
    /\ \E b \in AnalyzeInputs :
       \E pred \in PredictOutcomes(cache.entry.value.model) :
       \E a \in {analyze_emotion(b, cache.entry.value, pred)} :
           run' = [NoRun EXCEPT !.seen = cache.entry.value,
                                !.analysis = a,
                                !.fault = a.raised,
                                !.screen = a.banners]
    /\ UNCHANGED <<disk, cache, loads, first_load, uploaded_file, recorder,
                   session_state>>

FunctionNext ==
    \/ DiskChange
    \/ OpenPage
    \/ CallAnalyze

FunctionSpec == Init /\ [][FunctionNext]_vars

-----------------------------------------------------------------------------
(* Properties *)

\* the last run called analyze_emotion and preprocessing decoded its input
Preprocessed_ == run.analysis.called /\ run.analysis.pre.decoded

\* C1: whenever decoding succeeds, preprocess_audio_from_bytes returns exactly
\* TARGET_LENGTH samples: sample i is sample i of the trimmed waveform for
\* i <= n and 0 beyond it (padding only at the end, the first TARGET_LENGTH
\* samples in order when n >= TARGET_LENGTH), for every trimmed length n >= 0.
C1_FixedWindow ==
    Preprocessed_ =>
        /\ run.analysis.pre.audio_trimmed
               = trim(librosa_load(run.analysis.input, TARGET_SR).audio)
        /\ run.analysis.pre.padded.ok
        /\ Len(run.analysis.pre.padded.samples) = TARGET_LENGTH
        /\ \A i \in 1..TARGET_LENGTH :
               run.analysis.pre.padded.samples[i] =
                   IF i <= Len(run.analysis.pre.audio_trimmed)
                   THEN run.analysis.pre.audio_trimmed[i]
                   ELSE 0

\* a voiced clip longer than the window after trimming was preprocessed
C1_Witness ==
    /\ Preprocessed_
    /\ Len(run.analysis.pre.audio_trimmed) > TARGET_LENGTH
    /\ run.analysis.pre.audio_trimmed[1] # 0

\* a voiced clip shorter than the window after trimming was preprocessed
C1_WitnessPadded ==
    /\ Preprocessed_
    /\ Len(run.analysis.pre.audio_trimmed) \in 1..(TARGET_LENGTH - 1)
    /\ run.analysis.pre.audio_trimmed[1] # 0

\* the upload tab measured a decodable file of exactly 6 s or one sample more
AtLimit ==
    /\ run.validation.called
    /\ ~run.validation.raised
    /\ run.validation.decoded_len \in
           {MAX_RECORD_DURATION * DEFAULT_SR, MAX_RECORD_DURATION * DEFAULT_SR + 1}

\* the file of exactly 6 s is accepted, the one a sample longer is rejected, and
\* the returned duration is the sample count over the decoding rate
LimitDecision ==
    /\ run.validation.is_valid
           <=> (run.validation.decoded_len = MAX_RECORD_DURATION * DEFAULT_SR)
    /\ ("too_long_error" \in run.screen) <=> ~run.validation.is_valid
    /\ ("file_valid" \in run.screen) <=> run.validation.is_valid
    /\ run.validation.duration = Dur(run.validation.decoded_len, DEFAULT_SR)

\* C2 as stated: at exactly 6 s a clip is accepted and one sample longer it is
\* rejected, and in both cases the duration returned and the duration reported
\* in the message equal the measured value (samples / rate).
C2_ReportedIsMeasured ==
    AtLimit =>
        /\ LimitDecision
        /\ run.reported * DEFAULT_SR = 100 * run.validation.decoded_len

\* C2 amended: at exactly 6 s a clip is accepted and one sample longer it is
\* rejected; the duration returned equals the measured value, and the duration
\* reported in the message is the measured value rounded to the nearest
\* hundredth of a second.
C2_ReportedIsRounded ==
    AtLimit =>
        /\ LimitDecision
        /\ 2 * (run.reported * DEFAULT_SR - 100 * run.validation.decoded_len)
               <= DEFAULT_SR
        /\ 2 * (100 * run.validation.decoded_len - run.reported * DEFAULT_SR)
               <= DEFAULT_SR

\* a file one sample longer than 6 s was measured and rejected
C2_Witness ==
    /\ AtLimit
    /\ run.validation.decoded_len = MAX_RECORD_DURATION * DEFAULT_SR + 1
    /\ "too_long_error" \in run.screen

\* C3: an uploaded input is rejected with the duration-exceeded error if and
\* only if its measured duration exceeds 6 s; every other uploaded input is
\* accepted and offered the detect action (so an undecodable file is not
\* reported as a too-long file).
C3_RejectedIffTooLong ==
    (uploaded_file.kind # "none" /\ "file_uploader" \in run.screen) =>
        /\ ("too_long_error" \in run.screen)
               <=> /\ uploaded_file.kind = "audio"
                   /\ Len(librosa_load(uploaded_file, DEFAULT_SR).audio)
                          > MAX_RECORD_DURATION * DEFAULT_SR
        /\ ("too_long_error" \notin run.screen)
               => "detect_upload_button" \in run.screen

\* C4: when load_assets fails it returns (None, None) without raising, and in
\* every page run that follows no tab, no input widget, no detect button and no
\* call of analyze_emotion occurs; beside the header the page shows the warning.
C4_NoAssetsNoDetection ==
    (run # NoRun /\ ~first_load.model.ok) =>
        /\ run.seen = NoAssets
        /\ ~run.fault
        /\ ~run.analysis.called
        /\ ~run.validation.called
        /\ ~run.processing.called
        /\ run.clicked = "none"
        /\ run.screen \ {"title", "asset_error"} = {"asset_warning"}

\* the files are back on disk, and the page still shows only the warning
C4_Witness ==
    /\ run # NoRun
    /\ ~first_load.model.ok
    /\ disk.readable
    /\ "asset_warning" \in run.screen

\* C5: the assets are loaded from disk at most once per process, and every run
\* sees the pair that this first load produced, whatever the disk holds later.
C5_LoadedOnce ==
    /\ loads <= 1
    /\ (run # NoRun) =>
           /\ loads = 1
           /\ cache.filled
           /\ cache.entry.value = first_load
           /\ run.seen = first_load

\* a run after the files on disk changed: it sees the pair of the first load
C5_Witness ==
    /\ run # NoRun
    /\ ~run.executed
    /\ disk.assets # first_load
    /\ first_load.model.ok

\* C6: after any detect click the action ends in a displayed result or in a
\* displayed error, and no failure escapes as an unhandled exception.
C6_NoUnhandledFault ==
    (run.clicked # "none") =>
        /\ ~run.fault
        /\ run.analysis.called
        /\ \E e \in {"upload_result", "upload_extract_error",
                     "record_result", "record_extract_error"} : e \in run.screen

\* the waveform that process_recorded_audio decodes from the stored recording
DecodedRecording == librosa_load(session_state.recorded_audio, TARGET_SR).audio

\* C7: a decodable recording is never rejected for its length: the stored WAV
\* holds the first min(n, 6 * TARGET_SR) samples of the decoded waveform, the
\* stored duration is that count over TARGET_SR and at most 6 s, and the
\* truncation notice appears exactly in the run that processed a recording of
\* more than 6 * TARGET_SR samples.
C7_RecordingTruncated ==
    (session_state.recorded_audio.kind = "audio") =>
        /\ session_state.audio_processed.kind = "audio"
        /\ session_state.audio_processed.sr = TARGET_SR
        /\ Len(session_state.audio_processed.samples)
               = Min(Len(DecodedRecording), MAX_RECORD_DURATION * TARGET_SR)
        /\ \A i \in 1..Len(session_state.audio_processed.samples) :
               session_state.audio_processed.samples[i] = DecodedRecording[i]
        /\ session_state.audio_duration
               = Dur(Len(session_state.audio_processed.samples), TARGET_SR)
        /\ session_state.audio_duration.num
               <= MAX_RECORD_DURATION * session_state.audio_duration.den
        /\ run.processing.called => ~run.processing.raised
        /\ ("truncate_info" \in run.screen)
               <=> /\ run.processing.called
                   /\ Len(DecodedRecording) > MAX_RECORD_DURATION * TARGET_SR

\* a recording one sample longer than 6 s was processed, cut and announced
C7_Witness ==
    /\ session_state.recorded_audio.kind = "audio"
    /\ Len(DecodedRecording) = MAX_RECORD_DURATION * TARGET_SR + 1
    /\ run.processing.called
    /\ "truncate_info" \in run.screen
    /\ "detect_record_button" \in run.screen

\* C8: when analyze_emotion returns with a feature, the label is the one the
\* label encoder gives for an index of the largest score and the scores have
\* one entry per output unit; when preprocessing yields no waveform there is
\* no feature, it returns (None, None) and the model is not invoked.
C8_ArgmaxLabel ==
    (run.analysis.called /\ ~run.analysis.raised) =>
        IF run.analysis.log_mel_spec.ok
        THEN /\ run.analysis.model_invoked
             /\ Len(run.analysis.predictions) = run.seen.model.outputs
             /\ \E i \in 1..Len(run.analysis.predictions) :
                    /\ \A j \in 1..Len(run.analysis.predictions) :
                           run.analysis.predictions[j] <= run.analysis.predictions[i]
                    /\ i <= Len(run.seen.label_encoder.classes_)
                    /\ run.analysis.predicted_emotion
                           = run.seen.label_encoder.classes_[i]
        ELSE /\ ~run.analysis.model_invoked
             /\ run.analysis.predicted_emotion = "None"
             /\ run.analysis.predictions = <<>>
             /\ ~run.analysis.pre.decoded
             /\ "preprocess_error" \in run.analysis.banners

\* a detection returned the second label for scores whose largest is the second
C8_Witness ==
    /\ run.analysis.called
    /\ ~run.analysis.raised
    /\ run.analysis.log_mel_spec.ok
    /\ run.analysis.predictions[1] < run.analysis.predictions[2]
    /\ run.analysis.predicted_emotion = EmotionNames[2]

\* analyze_emotion was given undecodable bytes and returned (None, None)
C8_WitnessNone ==
    /\ run.analysis.called
    /\ run.analysis.input = GarbageBytes
    /\ ~run.analysis.raised
    /\ run.analysis.predicted_emotion = "None"

\* all elements of x are equal: its standard deviation is zero
Constant(x) == \A i, j \in 1..Len(x) : x[i] = x[j]

\* C9: the feature is the log-mel array minus its mean; it is divided by the
\* standard deviation exactly when that is not zero, and no division by zero
\* is ever executed.
C9_Standardization ==
    run.analysis.log_mel_spec.ok =>
        /\ run.analysis.log_mel_spec.log_mel
               = power_to_db(melspectrogram(run.analysis.pre.padded.samples))
        /\ run.analysis.log_mel_spec.den = Len(run.analysis.log_mel_spec.log_mel)
        /\ \A i \in 1..Len(run.analysis.log_mel_spec.log_mel) :
               run.analysis.log_mel_spec.num[i] =
                   Len(run.analysis.log_mel_spec.log_mel)
                       * run.analysis.log_mel_spec.log_mel[i]
                   - SumSeq(run.analysis.log_mel_spec.log_mel)
        /\ Constant(run.analysis.log_mel_spec.log_mel)
               => /\ ~run.analysis.log_mel_spec.divided
                  /\ run.analysis.log_mel_spec.std_sq = 0
        /\ ~Constant(run.analysis.log_mel_spec.log_mel)
               => /\ run.analysis.log_mel_spec.divided
                  /\ run.analysis.log_mel_spec.std_sq > 0

\* a clip of digital silence was analysed: constant log-mel array, no division
C9_Witness ==
    /\ run.analysis.log_mel_spec.ok
    /\ Constant(run.analysis.log_mel_spec.log_mel)
    /\ ~run.analysis.log_mel_spec.divided

\* the stored bytes and duration are those of the stored recording, the detect
\* action is offered only for bytes that processing produced, it analyses the
\* stored bytes, and the stored recording is the recorder's newest output
SessionConsistent ==
    (session_state.keys # {}) =>
        /\ IF session_state.recorded_audio.kind = "none"
           THEN /\ session_state.audio_processed = NoBytes
                /\ session_state.audio_duration = ZeroDur
           ELSE /\ Truthy(session_state.recorded_audio)
                /\ session_state.audio_processed
                       = process_recorded_audio(session_state.recorded_audio).processed_bytes
                /\ session_state.audio_duration
                       = process_recorded_audio(session_state.recorded_audio).duration
        /\ ("audio_recorder" \in run.screen /\ Truthy(recorder))
               => session_state.recorded_audio = recorder
        /\ ("detect_record_button" \in run.screen)
               => /\ Truthy(session_state.audio_processed)
                  /\ ~process_recorded_audio(session_state.recorded_audio).raised
        /\ (run.clicked = "record")
               => /\ run.analysis.called
                  /\ run.analysis.input = session_state.audio_processed

\* a script run processes the recorder output only when it is non-empty and
\* differs from the stored recording; a run that does not process leaves the
\* stored values as they were (or starts a new session)
ReprocessOnlyNew ==
    (<<run, session_state, recorder, uploaded_file>>'
         # <<run, session_state, recorder, uploaded_file>>) =>
        /\ run'.processing.called
               => /\ Truthy(recorder')
                  /\ recorder' # session_state.recorded_audio
        /\ ~run'.processing.called
               => \/ session_state' = session_state
                  \/ session_state' = InitSession(session_state)
                  \/ session_state' = EmptySession
                  \/ session_state' = InitSession(EmptySession)

\* C10: after any sequence of page runs the stored audio_processed and
\* audio_duration are the outputs of process_recorded_audio on the stored
\* recorded_audio (None and 0 before any recording); the recorder output is
\* reprocessed only when it is non-empty and differs from the stored one; the
\* detect action analyses the bytes of the newest clip and is not offered when
\* processing that clip failed.
C10_SessionInvariant == []SessionConsistent /\ [][ReprocessOnlyNew]_vars

\* a second recording could not be processed: no detect action is offered
C10_Witness ==
    /\ session_state.recorded_audio = GarbageBytes
    /\ recorder = GarbageBytes
    /\ ~run.processing.called
    /\ session_state.audio_processed = NoBytes
    /\ "detect_record_button" \notin run.screen
    /\ "audio_recorder" \in run.screen

====
